---- MODULE Spec2Model ----
(***************************************************************************)
(* Video rebranding backend (backend/main.py, backend/video_processor.py,  *)
(* backend/image_processor.py, backend/config.py).                         *)
(*                                                                         *)
(* The request handlers are coroutines of one asyncio event loop: a step   *)
(* of the model is the code a handler runs between two awaits.  The        *)
(* external ffprobe / ffmpeg processes and the client are the environment: *)
(* what they return is chosen with \E from small sets.                     *)
(***************************************************************************)
EXTENDS Integers, Sequences, FiniteSets, TLC

\* ------------------------------------------------------------------------
\* Bounds of the model
\* ------------------------------------------------------------------------

\* number of /api/process-video requests
NumJobs == 2

\* number of /api/remove-background requests
NumImages == 1

\* settings.MAX_FILE_SIZE (config.py:20), scaled down: bytes
MAX_FILE_SIZE == 3

\* the chunk size of file.read() (main.py:208), scaled down: bytes
ChunkSize == 2

\* widths and heights 0 .. MaxTinyDim are all tried by the region calculator
MaxTinyDim == 14

\* settings.MAX_CONCURRENT_JOBS (config.py:25, default 2): the permits N
MAX_CONCURRENT_JOBS == 1

\* the logo look-ups of a run that studies the logo resolution
MaxLookups == 3

\* ------------------------------------------------------------------------
\* Program constants
\* ------------------------------------------------------------------------

\* settings.MAX_IMAGE_SIZE_MB
MAX_IMAGE_SIZE_MB == 10

\* stderr.decode()[-500:]
ErrorTail == 500

\* the margin between the region and the frame edges
Margin == 20

\* video_stream.get("width", 1280)
DefaultWidth == 1280

\* video_stream.get("height", 720)
DefaultHeight == 720

\* scale=120:-1
LogoScaleWidth == 120

Max(a, b) == IF a >= b THEN a ELSE b

Min(a, b) == IF a <= b THEN a ELSE b

\* ------------------------------------------------------------------------
\* VideoProcessor: the pure part
\* ------------------------------------------------------------------------

ResolutionKeys == {"480p", "720p", "1080p", "4k"}

WATERMARK_REGIONS ==
    [k \in ResolutionKeys |->
        CASE k = "720p"  -> [x |-> 1100, y |-> 660,  w |-> 180, h |-> 60]
          [] k = "1080p" -> [x |-> 1700, y |-> 1000, w |-> 220, h |-> 80]
          [] k = "480p"  -> [x |-> 700,  y |-> 440,  w |-> 140, h |-> 40]
          [] k = "4k"    -> [x |-> 3600, y |-> 2080, w |-> 400, h |-> 160]]

\* faulty variant: the thresholds are compared with > in place of >=
_get_resolution_key_strict(width, height) ==
    IF height > 2160 THEN "4k"
    ELSE IF height > 1080 THEN "1080p"
    ELSE IF height > 720 THEN "720p"
    ELSE "480p"

_get_resolution_key(width, height) ==
    IF height >= 2160 THEN "4k"
    ELSE IF height >= 1080 THEN "1080p"
    ELSE IF height >= 720 THEN "720p"
    ELSE "480p"

\* the reference frame the base region of a class is given for
RefWidth(resolution) ==
    IF resolution = "4k" THEN 3840
    ELSE IF resolution = "1080p" THEN 1920
    ELSE IF resolution = "720p" THEN 1280
    ELSE 854

RefHeight(resolution) ==
    IF resolution = "4k" THEN 2160
    ELSE IF resolution = "1080p" THEN 1080
    ELSE IF resolution = "720p" THEN 720
    ELSE 480

\* scale = dim / ref is a double and int(base * scale) truncates the double
\* product.  The double product differs from the exact one by far less than
\* 1/ref, so the truncation differs from the exact floor only where
\* base * dim is a multiple of ref and the double product falls just below
\* that integer.  These are all such <<base, dim, ref>> with dim <= 9000
\* (IEEE-754 binary64, round to nearest even).
FloatShort ==
    {<<180, 448, 1280>>, <<180, 896, 1280>>, <<180, 1472, 1280>>,
     <<180, 1792, 1280>>, <<180, 2624, 1280>>, <<180, 2944, 1280>>,
     <<180, 3264, 1280>>, <<180, 3584, 1280>>, <<180, 5248, 1280>>,
     <<180, 5568, 1280>>, <<180, 5888, 1280>>, <<180, 6208, 1280>>,
     <<180, 6528, 1280>>, <<180, 6848, 1280>>, <<180, 7168, 1280>>,
     <<220, 2208, 1920>>, <<220, 3936, 1920>>, <<220, 4416, 1920>>,
     <<220, 7872, 1920>>, <<220, 8352, 1920>>, <<220, 8832, 1920>>,
     <<400, 1104, 3840>>, <<400, 1968, 3840>>, <<400, 2208, 3840>>,
     <<400, 2448, 3840>>, <<400, 3936, 3840>>, <<400, 4176, 3840>>,
     <<400, 4416, 3840>>, <<400, 4656, 3840>>, <<400, 4896, 3840>>,
     <<400, 7872, 3840>>, <<400, 8112, 3840>>, <<400, 8352, 3840>>,
     <<400, 8592, 3840>>, <<400, 8832, 3840>>,
     <<60, 1476, 720>>, <<60, 2940, 720>>, <<60, 2952, 720>>,
     <<60, 2964, 720>>, <<60, 5880, 720>>, <<60, 5904, 720>>,
     <<60, 5928, 720>>, <<60, 6060, 720>>, <<60, 6084, 720>>,
     <<60, 6108, 720>>}

\* faulty variant: the quotient dim / ref is an integer division
ScaleIntDiv(base, dim, ref) == base * (dim \div ref)

\* faulty variant: the product is rounded to the nearest integer, not truncated
ScaleRound(base, dim, ref) == ((2 * base * dim) + ref) \div (2 * ref)

\* int(base * (dim / ref))
ScaleTrunc(base, dim, ref) ==
    ((base * dim) \div ref) - (IF <<base, dim, ref>> \in FloatShort THEN 1 ELSE 0)

RecognisedPositions == {"bottom-right", "bottom-left", "top-right", "top-left"}

_calculate_watermark_region(width, height, position) ==
    LET resolution == _get_resolution_key(width, height)
        base_region == WATERMARK_REGIONS[resolution]
        region_w == ScaleTrunc(base_region.w, width, RefWidth(resolution))
        region_h == ScaleTrunc(base_region.h, height, RefHeight(resolution))
        x == CASE position = "bottom-right" -> width - region_w - Margin
               [] position = "bottom-left"  -> Margin
               [] position = "top-right"    -> width - region_w - Margin
               [] position = "top-left"     -> Margin
               [] OTHER                     -> width - region_w - Margin
        y == CASE position = "bottom-right" -> height - region_h - Margin
               [] position = "bottom-left"  -> height - region_h - Margin
               [] position = "top-right"    -> Margin
               [] position = "top-left"     -> Margin
               [] OTHER                     -> height - region_h - Margin
    IN  [x |-> Max(0, x), y |-> Max(0, y), w |-> region_w, h |-> region_h]

\* faulty variant: the entries of bottom-left and top-right are exchanged
_get_logo_position_mirrored(position) ==
    CASE position = "bottom-left" -> [x |-> "W-w-20", y |-> "20"]
      [] position = "top-right"   -> [x |-> "20",     y |-> "H-h-20"]
      [] position = "top-left"    -> [x |-> "20",     y |-> "20"]
      [] OTHER                    -> [x |-> "W-w-20", y |-> "H-h-20"]

\* the overlay expression "<x>:<y>" as the pair of its two terms
_get_logo_position(position) ==
    CASE position = "bottom-left" -> [x |-> "20",     y |-> "H-h-20"]
      [] position = "top-right"   -> [x |-> "W-w-20", y |-> "20"]
      [] position = "top-left"    -> [x |-> "20",     y |-> "20"]
      [] OTHER                    -> [x |-> "W-w-20", y |-> "H-h-20"]

\* ------------------------------------------------------------------------
\* VideoProcessor.process: probe, command, result
\* ------------------------------------------------------------------------

\* a key the selected stream does not have
NoDim == -1

Stream(codec_type, width, height) ==
    [codec_type |-> codec_type, width |-> width, height |-> height]

\* what json.loads returns: a dict (truthy iff it has a key) with its
\* "streams" list, or a value of another type
JsonDict(nkeys, streams) == [kind |-> "dict", nkeys |-> nkeys, streams |-> streams]

JsonList == [kind |-> "list", nkeys |-> 1, streams |-> <<>>]

\* stdout that json.loads rejects
Unparseable == [kind |-> "garbage", nkeys |-> 0, streams |-> <<>>]

\* what ffprobe did: its exit code and its stdout
ProbeRun(rc, out) == [rc |-> rc, out |-> out]

\* faulty variant: the exit code of ffprobe is not looked at
get_video_info_any_exit(pr) ==
    IF pr.out.kind = "garbage" THEN JsonDict(0, <<>>) ELSE pr.out

get_video_info(pr) ==
    IF pr.rc # 0 THEN JsonDict(0, <<>>)
    ELSE IF pr.out.kind = "garbage" THEN JsonDict(0, <<>>)
    ELSE pr.out

\* "not info"
Falsy(info) == info.nkeys = 0

\* faulty variant: the first stream is taken whatever its codec_type
FirstVideoAny(streams) == IF Len(streams) = 0 THEN 0 ELSE 1

\* the first stream whose codec_type is "video"; 0 when there is none
FirstVideo(streams) ==
    LET idx == {i \in 1..Len(streams) : streams[i].codec_type = "video"}
    IN  IF idx = {} THEN 0 ELSE CHOOSE i \in idx : \A k \in idx : i <= k

\* a file path: its directory, the job identifier in its name (0: none) and
\* the rest of its name
Path(dir, id, name) == [dir |-> dir, id |-> id, name |-> name]

NoPath == Path("", 0, "")

\* self.logo_dir / f"{preset}.png"
LogoFile(preset) == Path("logos", 0, preset)

\* faulty variant: "none" is looked up like a named preset
logo_exists_named(preset, logos) == preset \in logos

logo_exists(preset, logos) ==
    IF preset = "none" THEN TRUE ELSE preset \in logos

\* faulty variant: neither "none" nor the existence of the file is looked at
get_logo_path_unchecked(preset, logos) == LogoFile(preset)

get_logo_path(preset, logos) ==
    IF preset = "none" THEN NoPath
    ELSE IF preset \in logos THEN LogoFile(preset) ELSE NoPath

NoOverlay == [x |-> "", y |-> ""]

\* faulty variant: the branch without a logo is taken whatever the logo path
BuildCommandDelogoOnly(input_path, output_path, region, logo_path, logo_position) ==
    [inputs  |-> <<input_path>>,
     delogo  |-> region,
     scale   |-> 0,
     overlay |-> NoOverlay,
     output  |-> output_path]

\* the argument list of the ffmpeg invocation
BuildCommand(input_path, output_path, region, logo_path, logo_position) ==
    IF logo_path # NoPath
    THEN [inputs  |-> <<input_path, logo_path>>,
          delogo  |-> region,
          scale   |-> LogoScaleWidth,
          overlay |-> logo_position,
          output  |-> output_path]
    ELSE [inputs  |-> <<input_path>>,
          delogo  |-> region,
          scale   |-> 0,
          overlay |-> NoOverlay,
          output  |-> output_path]

NoCmd == [inputs |-> <<>>, delogo |-> [x |-> 0, y |-> 0, w |-> 0, h |-> 0],
          scale |-> 0, overlay |-> NoOverlay, output |-> NoPath]

\* an error message: its text and, where it quotes stderr, the slice quoted:
\* the first character quoted (0-based) and the number of characters
Msg(text) == [text |-> text, from |-> 0, len |-> 0]

Quote(text, from, len) == [text |-> text, from |-> from, len |-> len]

Return(ok, error) == [ok |-> ok, error |-> error]

NoResult == Return(FALSE, Msg("(pending)"))

\* process() from its start to the spawn of ffmpeg, given what ffprobe did:
\* either it returns (ret) or it has a command to run (cmd)
ProcessUntilSpawn(pr, input_path, output_path, logo_preset, watermark_position, logos) ==
    LET info == get_video_info(pr)
        v == FirstVideo(info.streams)
        video_stream == info.streams[v]
        width == IF video_stream.width = NoDim THEN DefaultWidth ELSE video_stream.width
        height == IF video_stream.height = NoDim THEN DefaultHeight ELSE video_stream.height
        region == _calculate_watermark_region(width, height, watermark_position)
        logo_path == get_logo_path(logo_preset, logos)
        logo_position == _get_logo_position(watermark_position)
    IN  IF Falsy(info)
        THEN [returned |-> TRUE, ret |-> Return(FALSE, Msg("Could not read video metadata")), cmd |-> NoCmd]
        ELSE IF info.kind # "dict"
        THEN [returned |-> TRUE, ret |-> Return(FALSE, Msg("'list' object has no attribute 'get'")), cmd |-> NoCmd]
        ELSE IF v = 0
        THEN [returned |-> TRUE, ret |-> Return(FALSE, Msg("No video stream found")), cmd |-> NoCmd]
        ELSE [returned |-> FALSE, ret |-> NoResult,
              cmd |-> BuildCommand(input_path, output_path, region, logo_path, logo_position)]

\* what ffmpeg did: its exit code, the length of its stderr, and whether the
\* output path exists when it has exited
EncodeRun(rc, errlen, out_exists) == [rc |-> rc, errlen |-> errlen, out_exists |-> out_exists]

\* "FFmpeg error: " + (stderr.decode()[-500:] if stderr else "Unknown error")
FFmpegError(errlen) ==
    IF errlen = 0 THEN Msg("FFmpeg error: Unknown error")
    ELSE Quote("FFmpeg error: ", Max(0, errlen - ErrorTail), Min(errlen, ErrorTail))

\* faulty variant: the exit code of ffmpeg is not looked at
ProcessAfterExitAnyCode(er) ==
    IF ~er.out_exists THEN Return(FALSE, Msg("Output file was not created"))
    ELSE Return(TRUE, Msg("None"))

\* faulty variant: the output path is not looked at
ProcessAfterExitUnchecked(er) ==
    IF er.rc # 0 THEN Return(FALSE, FFmpegError(er.errlen))
    ELSE Return(TRUE, Msg("None"))

\* process() after ffmpeg has exited
ProcessAfterExit(er) ==
    IF er.rc # 0 THEN Return(FALSE, FFmpegError(er.errlen))
    ELSE IF ~er.out_exists THEN Return(FALSE, Msg("Output file was not created"))
    ELSE Return(TRUE, Msg("None"))

\* ------------------------------------------------------------------------
\* The requests and what the environment may answer
\* ------------------------------------------------------------------------

Jobs == 1..NumJobs

Images == 1..NumImages

ALLOWED_VIDEO_EXTENSIONS == {".mp4", ".mov", ".webm", ".avi"}

valid_presets == {"lakeb2b", "champions", "ampliz", "none"}

valid_positions == {"bottom-right", "bottom-left", "top-right", "top-left"}

Request(ext, logo_preset, watermark_position, size) ==
    [ext |-> ext, logo_preset |-> logo_preset,
     watermark_position |-> watermark_position, size |-> size]

NoRequest == Request("", "", "", 0)

\* the requests of a run that looks at one job in detail, and of a run that
\* looks at many jobs at once
Requests(detail) ==
    IF detail
    THEN {Request(e, l, p, n) : e \in {".mp4", ".exe"}, l \in {"lakeb2b", "none", "bogus"},
                                p \in {"bottom-right", "center"},
                                n \in 0..(MAX_FILE_SIZE + ChunkSize)}
    ELSE {Request(".mp4", "lakeb2b", "bottom-right", 1),
          Request(".mp4", "none", "top-left", MAX_FILE_SIZE + 1),
          Request(".mp4", "lakeb2b", "center", 1)}

AudioStream == Stream("audio", NoDim, NoDim)

ProbeRuns(detail) ==
    IF detail
    THEN {ProbeRun(1, Unparseable),
          ProbeRun(1, JsonDict(2, <<Stream("video", 1920, 1080)>>)),
          ProbeRun(0, Unparseable),
          ProbeRun(0, JsonDict(0, <<>>)),
          ProbeRun(0, JsonList),
          ProbeRun(0, JsonDict(1, <<>>)),
          ProbeRun(0, JsonDict(2, <<AudioStream>>)),
          ProbeRun(0, JsonDict(2, <<AudioStream, Stream("video", 1920, 1080)>>)),
          ProbeRun(0, JsonDict(2, <<Stream("video", NoDim, NoDim)>>))}
    ELSE {ProbeRun(1, Unparseable),
          ProbeRun(0, JsonDict(2, <<Stream("video", 1920, 1080)>>))}

NoProbe == ProbeRun(-1, Unparseable)

EncodeRuns(detail) ==
    IF detail
    THEN {EncodeRun(rc, n, o) : rc \in {0, 1}, n \in {0, 1, ErrorTail, ErrorTail + 1},
                                o \in BOOLEAN}
    ELSE {EncodeRun(rc, 1, o) : rc \in {0, 1}, o \in BOOLEAN}

NoEncode == EncodeRun(-1, 0, FALSE)

\* settings.UPLOAD_DIR / f"{job_id}{file_ext}": the job's uuid4 is its index,
\* and the jobs are numbered in the order their requests arrive
input_path(j, ext) == Path("uploads", j, ext)

\* settings.OUTPUT_DIR / f"{job_id}_processed.mp4"
output_path(j) == Path("outputs", j, "_processed.mp4")

\* a file that lies in the upload directory before any request
StrayFile == Path("uploads", 0, "stray.mp4")

Response(status, prefix, error) == [status |-> status, prefix |-> prefix, error |-> error]

NoResponse == Response(0, "", Msg(""))

\* ------------------------------------------------------------------------
\* State
\* ------------------------------------------------------------------------

VARIABLES
    detail,     \* the run looks at one job in detail (TRUE) or at many jobs
    clients,    \* process-video requests the clients may still send
    pc,         \* pc[j]: where the handler of job j stands
    req,        \* req[j]: the request
    body,       \* body[j]: bytes of the upload not yet read
    file_size,  \* file_size[j]: the running byte counter
    written,    \* written[j]: bytes written to the temporary input file
    fs,         \* the files of the upload and output directories
    sem,        \* process_semaphore: free permits
    probe,      \* probe[j]: what the job's ffprobe did, once it has exited
    cmd,        \* cmd[j]: the ffmpeg invocation of the job
    enc,        \* enc[j]: what the job's ffmpeg did, once it has exited
    resp,       \* resp[j]: the response of the handler
    log,        \* log[j]: what the job has done so far, in order
    ipc,        \* ipc[i]: where the handler of image request i stands
    iresp,      \* iresp[i]: the status of its response
    calc,       \* the call of the region calculator under study
    logo_dir,   \* self.logo_dir: the presets whose <preset>.png exists in it
    lookups     \* the logo look-ups under study, in order

jobvars == <<detail, clients, pc, req, body, file_size, written, fs, sem, probe,
             cmd, enc, resp, log>>

imgvars == <<ipc, iresp>>

vars == <<detail, clients, pc, req, body, file_size, written, fs, sem, probe,
          cmd, enc, resp, log, ipc, iresp, calc, logo_dir, lookups>>

NoRegion == [x |-> 0, y |-> 0, w |-> 0, h |-> 0]

\* the calls under study and what they returned: the class of the frame
\* (key), its region (done, region), the region of the frame of twice the
\* width and twice the height (done2, doubled), the overlay offset (overlay)
NoCalc == [width |-> 0, height |-> 0, position |-> "", done |-> FALSE,
           region |-> NoRegion, key |-> "", done2 |-> FALSE, doubled |-> NoRegion,
           overlay |-> [x |-> "", y |-> ""]]

InitServer ==
    /\ pc = [j \in Jobs |-> "idle"]
    /\ req = [j \in Jobs |-> NoRequest]
    /\ body = [j \in Jobs |-> 0]
    /\ file_size = [j \in Jobs |-> 0]
    /\ written = [j \in Jobs |-> 0]
    /\ fs = {StrayFile}
    /\ sem = MAX_CONCURRENT_JOBS
    /\ probe = [j \in Jobs |-> NoProbe]
    /\ cmd = [j \in Jobs |-> NoCmd]
    /\ enc = [j \in Jobs |-> NoEncode]
    /\ resp = [j \in Jobs |-> NoResponse]
    /\ log = [j \in Jobs |-> <<>>]
    /\ ipc = [i \in Images |-> "idle"]
    /\ iresp = [i \in Images |-> 0]

\* the presets the listing names beside "none"
NamedPresets == {"lakeb2b", "champions", "ampliz"}

\* many requests at once
Init ==
    /\ detail = FALSE
    /\ clients = NumJobs
    /\ InitServer
    /\ calc = NoCalc
    /\ logo_dir = {"lakeb2b"}
    /\ lookups = <<>>

\* ------------------------------------------------------------------------
\* Helpers of the handlers
\* ------------------------------------------------------------------------

Range(q) == {q[i] : i \in 1..Len(q)}

\* cleanup_files(*files): unlink(missing_ok=True) of each
cleanup_files(files, paths) == files \ Range(paths)

\* the unlink calls of cleanup_files(*paths), in order
Unlinks(paths) ==
    [i \in 1..Len(paths) |-> IF paths[i].dir = "uploads" THEN "unlink_in" ELSE "unlink_out"]

\* faulty variant: the preset is not validated
ValidationErrorNoPreset(r) ==
    IF r.ext \notin ALLOWED_VIDEO_EXTENSIONS THEN "Invalid file type. Allowed: "
    ELSE IF r.watermark_position \notin valid_positions THEN "Invalid watermark position. Allowed: "
    ELSE ""

\* the first validation of process_video that fails; "" when none does
ValidationError(r) ==
    IF r.ext \notin ALLOWED_VIDEO_EXTENSIONS THEN "Invalid file type. Allowed: "
    ELSE IF r.logo_preset \notin valid_presets THEN "Invalid logo preset. Allowed: "
    ELSE IF r.watermark_position \notin valid_positions THEN "Invalid watermark position. Allowed: "
    ELSE ""

\* faulty variant: the limit is taken one byte too high
TooLargeLate(size) == size > MAX_FILE_SIZE + 1

\* "if file_size > settings.MAX_FILE_SIZE"
TooLarge(size) == size > MAX_FILE_SIZE

\* faulty variant: the handler goes on before the upload has been read in full
StagingCompleteAnytime(remaining) == TRUE

\* "while chunk := await file.read(...)": the loop ends when nothing is left
StagingComplete(remaining) == remaining = 0

\* faulty variant: the partial file is left behind
OversizeCleanupNothing(j, ext) == <<>>

\* what the handler deletes when the upload is too large
OversizeCleanup(j, ext) == <<input_path(j, ext)>>

\* what the handler deletes when process() reports a failure
FailureCleanup(j, ext) == <<input_path(j, ext)>>

\* what the handler deletes on an unexpected exception
UnexpectedCleanup(j, ext) == <<input_path(j, ext), output_path(j)>>

\* what the scheduled background task deletes
BackgroundCleanupFiles(j, ext) == <<input_path(j, ext), output_path(j)>>

\* faulty variant: the cleanup is run without waiting for the response to be sent
BackgroundReadyEarly(p) == p \in {"streaming", "sent"}

\* the background task of a response runs once the response is sent
BackgroundReady(p) == p = "sent"

\* faulty variant: the handler does not wait for a permit
CanAcquireAlways(s) == TRUE

\* faulty variant: the last permit is never handed out
CanAcquireButLast(s) == s > 1

\* asyncio.Semaphore: acquire() returns at once iff a permit is free
CanAcquire(s) == s > 0

Acquired(s) == s - 1

\* faulty variant: the permit is not given back
ReleasedLost(s) == s

\* __aexit__ of "async with process_semaphore"
Released(s) == s + 1

\* image_processor.remove_background has no await: while it runs, the event
\* loop runs nothing else
LoopFree == \A i \in Images : ipc[i] # "removing"

\* the handler of job j ends its step at next_pc
Goto(j, next_pc, files, events, response) ==
    /\ pc' = [pc EXCEPT ![j] = next_pc]
    /\ fs' = files
    /\ log' = [log EXCEPT ![j] = @ \o events]
    /\ resp' = [resp EXCEPT ![j] = response]

\* "except Exception": cleanup, then 500
Unexpected(j, ext, events) ==
    Goto(j, "done", cleanup_files(fs, UnexpectedCleanup(j, ext)),
         events \o Unlinks(UnexpectedCleanup(j, ext)) \o <<"respond">>,
         Response(500, "Unexpected error: ", Msg("OSError")))

\* process() has returned ret inside "async with process_semaphore" entered
\* with s free permits left: release, then the rest of the handler up to
\* its response
ProcessReturns(j, ret, s, events) ==
    /\ sem' = Released(s)
    /\ probe' = [probe EXCEPT ![j] = NoProbe]
    /\ enc' = [enc EXCEPT ![j] = NoEncode]
    /\ IF ~ret.ok
       THEN Goto(j, "done", cleanup_files(fs, FailureCleanup(j, req[j].ext)),
                 events \o <<"release">> \o Unlinks(FailureCleanup(j, req[j].ext))
                        \o <<"respond">>,
                 Response(500, "Processing failed: ", ret.error))
       ELSE Goto(j, "streaming", fs, events \o <<"release", "respond">>,
                 Response(200, "", Msg("FileResponse")))

\* ------------------------------------------------------------------------
\* POST /api/process-video
\* ------------------------------------------------------------------------

\* the request arrives: validation, the temporary names, open(input_path)
Submit(j) ==
    /\ LoopFree
    /\ pc[j] = "idle"
    /\ \A k \in Jobs : k < j => pc[k] # "idle"
    /\ clients > 0
    /\ clients' = clients - 1
    /\ \E r \in Requests(detail) :
        /\ req' = [req EXCEPT ![j] = r]
        /\ IF ValidationError(r) # ""
           THEN /\ Goto(j, "done", fs, <<>>, Response(400, ValidationError(r), Msg("")))
                /\ UNCHANGED body
           ELSE \E opened \in BOOLEAN :
                IF opened
                THEN /\ Goto(j, "staging", fs \cup {input_path(j, r.ext)}, <<"open">>, NoResponse)
                     /\ body' = [body EXCEPT ![j] = r.size]
                ELSE /\ Unexpected(j, r.ext, <<>>)
                     /\ UNCHANGED body
    /\ UNCHANGED <<detail, file_size, written, sem, probe, cmd, enc, imgvars, calc, logo_dir, lookups>>

\* one turn of the staging loop: read a chunk, count it, write it
StageChunk(j) ==
    /\ LoopFree
    /\ pc[j] = "staging"
    /\ body[j] > 0
    /\ LET chunk == Min(ChunkSize, body[j])
           size == file_size[j] + chunk
       IN  /\ body' = [body EXCEPT ![j] = @ - chunk]
           /\ file_size' = [file_size EXCEPT ![j] = size]
           /\ IF TooLarge(size)
              THEN /\ Goto(j, "done", cleanup_files(fs, OversizeCleanup(j, req[j].ext)),
                           Unlinks(OversizeCleanup(j, req[j].ext)) \o <<"respond">>,
                           Response(413, "File too large. Maximum size: ", Msg("")))
                   /\ written' = [written EXCEPT ![j] = 0]
              ELSE \E ok \in BOOLEAN :
                   IF ok
                   THEN /\ written' = [written EXCEPT ![j] = @ + chunk]
                        /\ UNCHANGED <<pc, fs, log, resp>>
                   ELSE /\ Unexpected(j, req[j].ext, <<>>)
                        /\ written' = [written EXCEPT ![j] = 0]
    /\ UNCHANGED <<detail, clients, req, sem, probe, cmd, enc, imgvars, calc, logo_dir, lookups>>

\* the read that returns no chunk ends the loop; the file is closed
StageDone(j) ==
    /\ LoopFree
    /\ pc[j] = "staging"
    /\ StagingComplete(body[j])
    /\ pc' = [pc EXCEPT ![j] = "staged"]
    /\ file_size' = [file_size EXCEPT ![j] = 0]
    /\ written' = [written EXCEPT ![j] = 0]
    /\ UNCHANGED <<detail, clients, req, body, fs, sem, probe, cmd, enc, resp, log,
                   imgvars, calc, logo_dir, lookups>>

\* "async with process_semaphore" is entered and process() starts ffprobe
Acquire(j) ==
    /\ LoopFree
    /\ pc[j] = "staged"
    /\ CanAcquire(sem)
    /\ \E spawned \in BOOLEAN :
        IF spawned
        THEN /\ sem' = Acquired(sem)
             /\ Goto(j, "probing", fs, <<"acquire", "probe">>, NoResponse)
             /\ UNCHANGED <<probe, enc>>
        ELSE ProcessReturns(j, Return(FALSE, Msg("[Errno 2] No such file or directory: 'ffprobe'")),
                            Acquired(sem), <<"acquire">>)
    /\ UNCHANGED <<detail, clients, req, body, file_size, written, cmd, imgvars, calc, logo_dir, lookups>>

\* ffprobe exits
ProbeExit(j) ==
    /\ pc[j] = "probing"
    /\ \E pr \in ProbeRuns(detail) : probe' = [probe EXCEPT ![j] = pr]
    /\ pc' = [pc EXCEPT ![j] = "probed"]
    /\ UNCHANGED <<detail, clients, req, body, file_size, written, fs, sem, cmd, enc,
                   resp, log, imgvars, calc, logo_dir, lookups>>

\* process() goes on after get_video_info, up to the start of ffmpeg
AfterProbe(j) ==
    /\ LoopFree
    /\ pc[j] = "probed"
    /\ \E spawned \in BOOLEAN :
        LET u == ProcessUntilSpawn(probe[j], input_path(j, req[j].ext), output_path(j),
                                   req[j].logo_preset, req[j].watermark_position, logo_dir)
        IN  IF u.returned
            THEN /\ ProcessReturns(j, u.ret, sem, <<>>)
                 /\ UNCHANGED cmd
            ELSE IF spawned
            THEN /\ cmd' = [cmd EXCEPT ![j] = u.cmd]
                 /\ Goto(j, "encoding", fs, <<"encode">>, NoResponse)
                 /\ UNCHANGED <<sem, probe, enc>>
            ELSE /\ ProcessReturns(j, Return(FALSE, Msg("[Errno 2] No such file or directory: 'ffmpeg'")),
                                   sem, <<>>)
                 /\ UNCHANGED cmd
    /\ UNCHANGED <<detail, clients, req, body, file_size, written, imgvars, calc, logo_dir, lookups>>

\* ffmpeg exits, having left the output path as it chose
EncodeExit(j) ==
    /\ pc[j] = "encoding"
    /\ \E er \in EncodeRuns(detail) :
        /\ enc' = [enc EXCEPT ![j] = er]
        /\ fs' = IF er.out_exists THEN fs \cup {cmd[j].output} ELSE fs \ {cmd[j].output}
        /\ log' = [log EXCEPT ![j] = IF er.out_exists THEN Append(@, "output") ELSE @]
    /\ pc' = [pc EXCEPT ![j] = "encoded"]
    /\ UNCHANGED <<detail, clients, req, body, file_size, written, sem, probe, cmd,
                   resp, imgvars, calc, logo_dir, lookups>>

\* process() goes on after proc.communicate() and returns
AfterEncode(j) ==
    /\ LoopFree
    /\ pc[j] = "encoded"
    /\ ProcessReturns(j, ProcessAfterExit(EncodeRun(enc[j].rc, enc[j].errlen,
                                                    output_path(j) \in fs)),
                      sem, <<>>)
    /\ cmd' = [cmd EXCEPT ![j] = NoCmd]
    /\ UNCHANGED <<detail, clients, req, body, file_size, written, imgvars, calc, logo_dir, lookups>>

\* the body of the FileResponse has been sent
StreamDone(j) ==
    /\ LoopFree
    /\ pc[j] = "streaming"
    /\ pc' = [pc EXCEPT ![j] = "sent"]
    /\ log' = [log EXCEPT ![j] = Append(@, "sent")]
    /\ UNCHANGED <<detail, clients, req, body, file_size, written, fs, sem, probe, cmd,
                   enc, resp, imgvars, calc, logo_dir, lookups>>

\* background_tasks: cleanup_files(input_path, output_path)
BackgroundCleanup(j) ==
    /\ LoopFree
    /\ pc[j] \in {"streaming", "sent"}
    /\ BackgroundReady(pc[j])
    /\ Goto(j, "done", cleanup_files(fs, BackgroundCleanupFiles(j, req[j].ext)),
            Unlinks(BackgroundCleanupFiles(j, req[j].ext)), resp[j])
    /\ UNCHANGED <<detail, clients, req, body, file_size, written, sem, probe, cmd,
                   enc, imgvars, calc, logo_dir, lookups>>

\* ------------------------------------------------------------------------
\* POST /api/remove-background
\* ------------------------------------------------------------------------

ImageLimit == MAX_IMAGE_SIZE_MB * 1024 * 1024

\* the request arrives: the content type is validated, then "await file.read()"
ImageSubmit(i) ==
    /\ LoopFree
    /\ ipc[i] = "idle"
    /\ \E allowed \in BOOLEAN :
        IF allowed
        THEN /\ ipc' = [ipc EXCEPT ![i] = "reading"]
             /\ UNCHANGED iresp
        ELSE /\ ipc' = [ipc EXCEPT ![i] = "done"]
             /\ iresp' = [iresp EXCEPT ![i] = 400]
    /\ UNCHANGED <<jobvars, calc, logo_dir, lookups>>

\* the upload is read: the size check
ImageRead(i) ==
    /\ LoopFree
    /\ ipc[i] = "reading"
    /\ \E len \in {ImageLimit, ImageLimit + 1} :
        IF len > ImageLimit
        THEN /\ ipc' = [ipc EXCEPT ![i] = "done"]
             /\ iresp' = [iresp EXCEPT ![i] = 400]
        ELSE /\ ipc' = [ipc EXCEPT ![i] = "waiting"]
             /\ UNCHANGED iresp
    /\ UNCHANGED <<jobvars, calc, logo_dir, lookups>>

\* "async with process_semaphore" is entered and the removal starts
ImageAcquire(i) ==
    /\ LoopFree
    /\ ipc[i] = "waiting"
    /\ CanAcquire(sem)
    /\ sem' = Acquired(sem)
    /\ ipc' = [ipc EXCEPT ![i] = "removing"]
    /\ UNCHANGED <<detail, clients, pc, req, body, file_size, written, fs, probe, cmd,
                   enc, resp, log, iresp, calc, logo_dir, lookups>>

\* the removal returns or raises; the permit is released either way
ImageRemoved(i) ==
    /\ ipc[i] = "removing"
    /\ sem' = Released(sem)
    /\ ipc' = [ipc EXCEPT ![i] = "done"]
    /\ \E ok \in BOOLEAN : iresp' = [iresp EXCEPT ![i] = IF ok THEN 200 ELSE 500]
    /\ UNCHANGED <<detail, clients, pc, req, body, file_size, written, fs, probe, cmd,
                   enc, resp, log, calc, logo_dir, lookups>>

\* ------------------------------------------------------------------------
\* The server
\* ------------------------------------------------------------------------

Next ==
    \/ \E j \in Jobs : Submit(j)
    \/ \E j \in Jobs : StageChunk(j)
    \/ \E j \in Jobs : StageDone(j)
    \/ \E j \in Jobs : Acquire(j)
    \/ \E j \in Jobs : ProbeExit(j)
    \/ \E j \in Jobs : AfterProbe(j)
    \/ \E j \in Jobs : EncodeExit(j)
    \/ \E j \in Jobs : AfterEncode(j)
    \/ \E j \in Jobs : StreamDone(j)
    \/ \E j \in Jobs : BackgroundCleanup(j)
    \/ \E i \in Images : ImageSubmit(i)
    \/ \E i \in Images : ImageRead(i)
    \/ \E i \in Images : ImageAcquire(i)
    \/ \E i \in Images : ImageRemoved(i)

Spec == Init /\ [][Next]_vars

\* one process-video request, looked at in detail, among the image requests
InitJob ==
    /\ detail = TRUE
    /\ clients = 1
    /\ InitServer
    /\ calc = NoCalc
    /\ logo_dir \in SUBSET {"lakeb2b"}
    /\ lookups = <<>>

SpecJob == InitJob /\ [][Next]_vars

\* two process-video requests that compete for the permits, among the image
\* requests, under the scheduling the event loop and the claim's assumptions
\* give
InitLive ==
    /\ detail = FALSE
    /\ clients = 2
    /\ InitServer
    /\ calc = NoCalc
    /\ logo_dir = {"lakeb2b"}
    /\ lookups = <<>>

\* The event loop runs every handler that can go on (the upload is read from
\* the spooled file, so staging does not wait for the client); the waiters
\* of an asyncio.Semaphore are woken in the order they came; ffprobe and
\* ffmpeg exit; a background removal returns or raises.  Nothing obliges a
\* client to send a request or to read a response.
Fairness ==
    /\ \A j \in Jobs :
          /\ WF_vars(StageChunk(j))
          /\ WF_vars(StageDone(j))
          /\ SF_vars(Acquire(j))
          /\ WF_vars(ProbeExit(j))
          /\ WF_vars(AfterProbe(j))
          /\ WF_vars(EncodeExit(j))
          /\ WF_vars(AfterEncode(j))
    /\ \A i \in Images : WF_vars(ImageRemoved(i))

SpecLive == InitLive /\ [][Next]_vars /\ Fairness

\* ------------------------------------------------------------------------
\* DELETE /api/cleanup
\* ------------------------------------------------------------------------

\* what shutil.rmtree(settings.BASE_TEMP_DIR, ignore_errors=True) leaves of
\* the upload and output directories, which are then created anew and empty
rmtree(files) == {f \in files : f.dir \notin {"uploads", "outputs"}}

\* the handler has no await: it runs in one step
cleanup_temp_files ==
    /\ LoopFree
    /\ fs' = rmtree(fs)
    /\ UNCHANGED <<detail, clients, pc, req, body, file_size, written, sem, probe, cmd,
                   enc, resp, log, imgvars, calc, logo_dir, lookups>>

\* two process-video requests among the image requests and the calls of the
\* maintenance endpoint
InitMaint ==
    /\ detail = FALSE
    /\ clients = 2
    /\ InitServer
    /\ calc = NoCalc
    /\ logo_dir = {"lakeb2b"}
    /\ lookups = <<>>

NextMaint ==
    \/ Next
    \/ cleanup_temp_files

SpecMaint == InitMaint /\ [][NextMaint]_vars

\* ------------------------------------------------------------------------
\* The region calculator alone
\* ------------------------------------------------------------------------

\* the frame sizes tried: the tiny ones, the class boundaries, the reference
\* frames, and widths where the double product falls short
Widths == (0..MaxTinyDim) \cup {448, 853, 854, 896, 1104, 1279, 1280, 1920, 2208, 3840}

Heights == (0..MaxTinyDim) \cup {240, 359, 360, 479, 480, 719, 720, 1079, 1080, 2159,
                                  2160, 4320}

Positions == RecognisedPositions \cup {"center"}

InitRegion ==
    /\ detail = FALSE
    /\ clients = 0
    /\ InitServer
    /\ calc \in {[NoCalc EXCEPT !.width = w, !.height = h, !.position = p] :
                    w \in Widths, h \in Heights, p \in Positions}
    /\ logo_dir = {}
    /\ lookups = <<>>

Calculate ==
    /\ ~calc.done
    /\ calc' = [calc EXCEPT !.done = TRUE,
                            !.region = _calculate_watermark_region(calc.width, calc.height,
                                                                   calc.position)]
    /\ UNCHANGED <<jobvars, imgvars, logo_dir, lookups>>

\* _get_resolution_key(width, height)
Classify ==
    /\ calc.key = ""
    /\ calc' = [calc EXCEPT !.key = _get_resolution_key(calc.width, calc.height)]
    /\ UNCHANGED <<jobvars, imgvars, logo_dir, lookups>>

\* _calculate_watermark_region(2 * width, 2 * height, position)
CalculateDoubled ==
    /\ ~calc.done2
    /\ calc' = [calc EXCEPT !.done2 = TRUE,
                            !.doubled = _calculate_watermark_region(2 * calc.width,
                                                                    2 * calc.height,
                                                                    calc.position)]
    /\ UNCHANGED <<jobvars, imgvars, logo_dir, lookups>>

\* _get_logo_position(position)
LogoPosition ==
    /\ calc.overlay.x = ""
    /\ calc' = [calc EXCEPT !.overlay = _get_logo_position(calc.position)]
    /\ UNCHANGED <<jobvars, imgvars, logo_dir, lookups>>

NextRegion ==
    \/ Calculate
    \/ Classify
    \/ CalculateDoubled
    \/ LogoPosition

SpecRegion == InitRegion /\ [][NextRegion]_vars

\* ------------------------------------------------------------------------
\* The logo resolution alone
\* ------------------------------------------------------------------------

\* one look-up: the function called, its argument, and what it returned
\* (path for get_logo_path, available for logo_exists and for an entry of
\* the listing of GET /api/presets)
Lookup(fn, preset, path, available) ==
    [fn |-> fn, preset |-> preset, path |-> path, available |-> available]

LookupPresets == NamedPresets \cup {"none", "bogus"}

InitLogo ==
    /\ detail = FALSE
    /\ clients = 0
    /\ InitServer
    /\ calc = NoCalc
    /\ logo_dir \in SUBSET NamedPresets
    /\ lookups = <<>>

\* processor.get_logo_path(preset)
GetLogoPath(preset) ==
    /\ Len(lookups) < MaxLookups
    /\ lookups' = Append(lookups, Lookup("get_logo_path", preset,
                                         get_logo_path(preset, logo_dir), FALSE))
    /\ UNCHANGED <<jobvars, imgvars, calc, logo_dir>>

\* processor.logo_exists(preset)
LogoExists(preset) ==
    /\ Len(lookups) < MaxLookups
    /\ lookups' = Append(lookups, Lookup("logo_exists", preset, NoPath,
                                         logo_exists(preset, logo_dir)))
    /\ UNCHANGED <<jobvars, imgvars, calc, logo_dir>>

\* GET /api/presets: the listing, entry by entry
get_presets ==
    /\ Len(lookups) < MaxLookups
    /\ lookups' = lookups \o
          <<Lookup("get_presets", "lakeb2b", NoPath, logo_exists("lakeb2b", logo_dir)),
            Lookup("get_presets", "champions", NoPath, logo_exists("champions", logo_dir)),
            Lookup("get_presets", "ampliz", NoPath, logo_exists("ampliz", logo_dir)),
            Lookup("get_presets", "none", NoPath, TRUE)>>
    /\ UNCHANGED <<jobvars, imgvars, calc, logo_dir>>

NextLogo ==
    \/ \E preset \in LookupPresets : GetLogoPath(preset)
    \/ \E preset \in LookupPresets : LogoExists(preset)
    \/ get_presets

SpecLogo == InitLogo /\ [][NextLogo]_vars

\* ------------------------------------------------------------------------
\* Properties
\* ------------------------------------------------------------------------

\* how often the job did e
Count(q, e) == Cardinality({i \in 1..Len(q) : q[i] = e})

\* everything the job did at one of as precedes everything at one of bs
Before(q, as, bs) ==
    \A i \in 1..Len(q), k \in 1..Len(q) : (q[i] \in as /\ q[k] \in bs) => i < k

\* the job's process() call is under way: ffprobe or ffmpeg is running or
\* has exited and process() has not returned yet
InProcess(j) == pc[j] \in {"probing", "probed", "encoding", "encoded"}

Running == Cardinality({j \in Jobs : InProcess(j)})
               + Cardinality({i \in Images : ipc[i] = "removing"})

\* permits the job holds
Holding(j) == Count(log[j], "acquire") - Count(log[j], "release")

JobFiles(j) == {input_path(j, req[j].ext), output_path(j)}

\* C1: once a process-video request has completed, whatever its outcome and
\* whatever ffmpeg left at the output path, neither its temporary input file
\* nor its temporary output file remains, and when all requests have
\* completed the temp directories hold what they held before.
C1_NoLeakedFiles ==
    /\ \A j \in Jobs : pc[j] = "done" => JobFiles(j) \cap fs = {}
    /\ (\A j \in Jobs : pc[j] \in {"idle", "done"}) => fs = {StrayFile}

\* C2: at most N transforms (process() calls and image removals) execute at
\* any time, every job whose ffprobe or ffmpeg has been started and whose
\* process() has not returned holds a permit, the free permits are N less
\* the running transforms, and while N run a further request waits.
C2_ConcurrencyBound ==
    /\ Running <= MAX_CONCURRENT_JOBS
    /\ \A j \in Jobs : InProcess(j) => Holding(j) = 1
    /\ \A j \in Jobs : Count(log[j], "probe") + Count(log[j], "encode") > 0
                          => Count(log[j], "acquire") = 1
    /\ sem = MAX_CONCURRENT_JOBS - Running
    /\ sem >= 0

\* C2 witness: N transforms run and one more request waits for a permit.
C2_Witness ==
    /\ Running = MAX_CONCURRENT_JOBS
    /\ \E j \in Jobs : pc[j] = "staged"
    /\ \E j \in Jobs : InProcess(j)

\* C3 as claimed: whenever no job is in its Probed/Processed stage, all N
\* permits are free.
C3_AllFreeWhenNoJobProcessing ==
    (\A j \in Jobs : ~InProcess(j)) => sem = MAX_CONCURRENT_JOBS

\* C3 as amended: a job acquires at most one permit, holds it exactly while
\* its process() call is under way, has released it exactly once when
\* process() has finished, and released it before any cleanup, response or
\* streaming; whenever no job is in its Probed/Processed stage and no image
\* removal is running, all N permits are free.
C3_ReleasedOnce ==
    /\ \A j \in Jobs :
        /\ Count(log[j], "acquire") <= 1
        /\ Holding(j) = (IF InProcess(j) THEN 1 ELSE 0)
        /\ Before(log[j], {"acquire"}, {"release"})
        /\ "acquire" \in Range(log[j])
              => Before(log[j], {"release"}, {"unlink_in", "unlink_out", "respond", "sent"})
    /\ ((\A j \in Jobs : ~InProcess(j)) /\ (\A i \in Images : ipc[i] # "removing"))
          => sem = MAX_CONCURRENT_JOBS

\* C3 witness: a job whose process() failed has given its permit back, and
\* another whose process() succeeded has, too.
C3_Witness ==
    /\ sem = MAX_CONCURRENT_JOBS
    /\ \E j \in Jobs : resp[j].status = 500 /\ Count(log[j], "release") = 1
    /\ \E j \in Jobs : resp[j].status = 200 /\ Count(log[j], "release") = 1

TooLargeCount(j) == file_size[j] > MAX_FILE_SIZE

\* C4: the running byte count exceeds the maximum exactly in the jobs that
\* end with 413; such a job has stopped staging, its partial input file is
\* gone, and it never asked for a permit nor started ffprobe or ffmpeg.
C4_OversizeRejected ==
    \A j \in Jobs :
        /\ TooLargeCount(j) <=> resp[j].status = 413
        /\ resp[j].status = 413 =>
              /\ pc[j] = "done"
              /\ JobFiles(j) \cap fs = {}
              /\ log[j] = <<"open", "unlink_in", "respond">>
              /\ written[j] = 0
              /\ probe[j] = NoProbe /\ cmd[j] = NoCmd /\ enc[j] = NoEncode

\* C4 witness: an upload of more than the maximum has been rejected.
C4_Witness ==
    \E j \in Jobs : resp[j].status = 413 /\ req[j].size > MAX_FILE_SIZE /\ pc[j] = "done"

\* a request that names a disallowed extension, an unknown preset or an
\* unknown position
Disallowed(r) ==
    \/ r.ext \notin {".mp4", ".mov", ".webm", ".avi"}
    \/ r.logo_preset \notin {"lakeb2b", "champions", "ampliz", "none"}
    \/ r.watermark_position \notin {"bottom-right", "bottom-left", "top-right", "top-left"}

\* C5: the step that takes in a request with a disallowed extension, an
\* unknown preset or an unknown position ends the job with a 4xx response,
\* creates no file, asks for no permit and leaves the temp directories and
\* the permit pool as they were.
C5_RejectedBeforeAnyFile ==
    [][\A j \in Jobs :
          (pc[j] = "idle" /\ pc'[j] # "idle" /\ Disallowed(req'[j])) =>
              /\ pc'[j] = "done"
              /\ resp'[j].status \in 400..499
              /\ log'[j] = <<>>
              /\ fs' = fs
              /\ sem' = sem]_vars

\* C5 witness: a request with an unknown preset (and an allowed extension)
\* has been rejected with 400 and no job file exists.
C5_Witness ==
    \E j \in Jobs :
        /\ pc[j] = "done" /\ resp[j].status = 400
        /\ req[j].logo_preset = "bogus" /\ req[j].ext = ".mp4"
        /\ log[j] = <<>> /\ JobFiles(j) \cap fs = {} /\ sem = MAX_CONCURRENT_JOBS

\* C6: when a job has ended, every temporary file it created (the input
\* file it opened, the output file its ffmpeg left) has been unlinked by it
\* exactly once.
C6_DeletedExactlyOnce ==
    \A j \in Jobs : pc[j] = "done" =>
        /\ "open" \in Range(log[j]) => Count(log[j], "unlink_in") = 1
        /\ "output" \in Range(log[j]) => Count(log[j], "unlink_out") = 1

ProbeUnusable(pr) ==
    \/ pr.rc # 0
    \/ pr.out.kind = "garbage"
    \/ /\ pr.out.kind = "dict"
       /\ \A i \in 1..Len(pr.out.streams) : pr.out.streams[i].codec_type # "video"

\* C8: the step that resumes process() after an unusable probe ends the job
\* as a processing failure: no ffmpeg command is built or started, the input
\* file is deleted, the permit is given back, and the response is a 5xx that
\* says what was wrong with the metadata.
C8_ProbeFailureIsProcessingFailure ==
    [][\A j \in Jobs :
          (pc[j] = "probed" /\ pc'[j] # "probed" /\ ProbeUnusable(probe[j])) =>
              /\ pc'[j] = "done"
              /\ resp'[j].status \in 500..599
              /\ resp'[j].prefix = "Processing failed: "
              /\ resp'[j].error.text \in {"Could not read video metadata", "No video stream found"}
              /\ cmd'[j] = NoCmd
              /\ "encode" \notin Range(log'[j])
              /\ input_path(j, req[j].ext) \notin fs'
              /\ sem' = sem + 1
              /\ Holding(j)' = 0]_vars

\* C8 witness: a job whose probe reported no video stream has failed with
\* "No video stream found": ffmpeg never ran, the permit is back, the input
\* file is gone.
C8_Witness ==
    \E j \in Jobs :
        /\ pc[j] = "done" /\ resp[j].status = 500
        /\ resp[j].error.text = "No video stream found"
        /\ log[j] = <<"open", "acquire", "probe", "release", "unlink_in", "respond">>
        /\ input_path(j, req[j].ext) \notin fs

\* C9: the step that resumes process() after ffmpeg has exited reports
\* success (the handler goes on to stream) iff the exit code is zero and the
\* output path exists; after a non-zero exit the failure quotes a suffix of
\* stderr of at most 500 characters; a zero exit without an output file is
\* the failure "Output file was not created".
C9_SuccessIffExitZeroAndOutput ==
    [][\A j \in Jobs :
          (pc[j] = "encoded" /\ pc'[j] # "encoded") =>
              /\ (pc'[j] = "streaming" /\ resp'[j].status = 200)
                    <=> (enc[j].rc = 0 /\ output_path(j) \in fs)
              /\ ~(enc[j].rc = 0 /\ output_path(j) \in fs)
                    => (pc'[j] = "done" /\ resp'[j].status = 500)
              /\ enc[j].rc # 0 =>
                    /\ resp'[j].error.len <= 500
                    /\ resp'[j].error.len <= enc[j].errlen
                    /\ resp'[j].error.from + resp'[j].error.len = enc[j].errlen
                    /\ enc[j].errlen >= 500 => resp'[j].error.len = 500
              /\ (enc[j].rc = 0 /\ output_path(j) \notin fs)
                    => resp'[j].error.text = "Output file was not created"]_vars

\* C9 witness: a failure that quotes the last 500 of more than 500
\* characters of stderr.
C9_Witness ==
    \E j \in Jobs :
        /\ pc[j] = "done" /\ resp[j].status = 500
        /\ resp[j].error.text = "FFmpeg error: "
        /\ resp[j].error.from > 0 /\ resp[j].error.len = 500

\* C10 as claimed: for every frame size and position the region has x >= 0,
\* y >= 0, width > 0 and height > 0.
C10_RegionPositive ==
    calc.done =>
        /\ calc.region.x >= 0 /\ calc.region.y >= 0
        /\ calc.region.w > 0 /\ calc.region.h > 0

\* the least frame width for which the region of a class is not empty
MinWidth(resolution) ==
    CASE resolution = "480p"  -> 7
      [] resolution = "720p"  -> 8
      [] resolution = "1080p" -> 9
      [] resolution = "4k"    -> 10

\* C10 as amended: for every frame size and position the region has x >= 0,
\* y >= 0, width >= 0 and height >= 0; its height is > 0 exactly when the
\* frame height is at least 12, and its width is > 0 exactly when the frame
\* width is at least 7 (480p), 8 (720p), 9 (1080p) or 10 (4k).
C10_RegionNonNegative ==
    calc.done =>
        /\ calc.region.x >= 0 /\ calc.region.y >= 0
        /\ calc.region.w >= 0 /\ calc.region.h >= 0
        /\ calc.region.h > 0 <=> calc.height >= 12
        /\ calc.region.w > 0
              <=> calc.width >= MinWidth(_get_resolution_key(calc.width, calc.height))

\* C10 witness: a region of positive size has been computed for a frame
\* smaller than the region's margin, where x and y are clamped to 0.
C10_Witness ==
    /\ calc.done
    /\ calc.width = 14 /\ calc.height = 12 /\ calc.position = "bottom-right"
    /\ calc.region = [x |-> 0, y |-> 0, w |-> 2, h |-> 1]

Abs(n) == IF n >= 0 THEN n ELSE 0 - n

\* C11 as claimed: for every frame size, the region of the frame of twice
\* the width and twice the height has twice the width and twice the height
\* of the region of the frame, up to a difference of 1 in each.
C11_DoublingDoubles ==
    (calc.done /\ calc.done2) =>
        /\ Abs(calc.doubled.w - 2 * calc.region.w) <= 1
        /\ Abs(calc.doubled.h - 2 * calc.region.h) <= 1

\* C11 as amended: the same, for the frames whose doubled frame is of the
\* same resolution class, which are those of height below 360 and those of
\* height 2160 or more.
C11_DoublingWithinClass ==
    (calc.done /\ calc.done2 /\ (calc.height < 360 \/ calc.height >= 2160)) =>
        /\ Abs(calc.doubled.w - 2 * calc.region.w) <= 1
        /\ Abs(calc.doubled.h - 2 * calc.region.h) <= 1

\* C11 witness: a frame of the 480p class whose doubled frame is of that
\* class too and has a region one wider than twice its own and exactly
\* twice as high.
C11_Witness ==
    /\ calc.done /\ calc.done2
    /\ calc.width = 853 /\ calc.height = 240
    /\ calc.region.w = 139 /\ calc.doubled.w = 279
    /\ calc.region.h = 20 /\ calc.doubled.h = 40

\* C12: every frame has exactly one resolution class, which its height
\* alone decides: 4k from 2160 up, 1080p from 1080 to 2159, 720p from 720 to
\* 1079, and 480p below 720, whatever the width.
C12_ClassByHeight ==
    calc.key # "" =>
        /\ calc.key \in {"480p", "720p", "1080p", "4k"}
        /\ calc.key = "4k" <=> calc.height >= 2160
        /\ calc.key = "1080p" <=> (calc.height >= 1080 /\ calc.height < 2160)
        /\ calc.key = "720p" <=> (calc.height >= 720 /\ calc.height < 1080)
        /\ calc.key = "480p" <=> calc.height < 720

\* C12 witness: a frame of height exactly 720 and of a width far from the
\* reference width has been classified as 720p.
C12_Witness ==
    calc.key = "720p" /\ calc.height = 720 /\ calc.width = 3840

\* the positions that name the left edge, and those that name the top edge
LeftPositions == {"bottom-left", "top-left"}

TopPositions == {"top-right", "top-left"}

\* C16: for every position value the region and the overlay offset lie at
\* the same corner, 20 pixels from its two edges: the left edge for
\* bottom-left and top-left and the right edge otherwise, the top edge for
\* top-right and top-left and the bottom edge otherwise, so that a value
\* that is not one of the four gives what bottom-right gives.
C16_SameCorner ==
    /\ calc.done =>
          /\ calc.region.x = (IF calc.position \in LeftPositions THEN 20
                              ELSE Max(0, calc.width - calc.region.w - 20))
          /\ calc.region.y = (IF calc.position \in TopPositions THEN 20
                              ELSE Max(0, calc.height - calc.region.h - 20))
    /\ calc.overlay.x # "" =>
          /\ calc.overlay.x = (IF calc.position \in LeftPositions THEN "20" ELSE "W-w-20")
          /\ calc.overlay.y = (IF calc.position \in TopPositions THEN "20" ELSE "H-h-20")

\* C16 witness: for the position "center" of a 1920x1080 frame both calls
\* have returned what bottom-right gives.
C16_Witness ==
    /\ calc.done /\ calc.position = "center"
    /\ calc.width = 1920 /\ calc.height = 1080
    /\ calc.region = [x |-> 1680, y |-> 980, w |-> 220, h |-> 80]
    /\ calc.overlay = [x |-> "W-w-20", y |-> "H-h-20"]

\* the job's ffmpeg command has been built and ffmpeg has been started
CommandBuilt(j) == pc[j] \in {"encoding", "encoded"}

\* the stream process() selected from what the job's ffprobe reported
Selected(j) == probe[j].out.streams[FirstVideo(probe[j].out.streams)]

\* C13: for a 1920x1080 input with position "bottom-right" and preset
\* "none" the class is 1080p, and the command built has the delogo filter
\* with exactly x=1680, y=980, w=220, h=80, the input file as its only
\* input, and no scale or overlay stage.
C13_Example1080p ==
    \A j \in Jobs :
        (/\ CommandBuilt(j)
         /\ Selected(j).width = 1920 /\ Selected(j).height = 1080
         /\ req[j].watermark_position = "bottom-right"
         /\ req[j].logo_preset = "none") =>
            /\ _get_resolution_key(Selected(j).width, Selected(j).height) = "1080p"
            /\ cmd[j].delogo = [x |-> 1680, y |-> 980, w |-> 220, h |-> 80]
            /\ cmd[j].inputs = <<input_path(j, req[j].ext)>>
            /\ cmd[j].scale = 0
            /\ cmd[j].overlay = NoOverlay
            /\ cmd[j].output = output_path(j)

\* C13 witness: ffmpeg runs for such a request, started with a command whose
\* delogo filter has these four numbers, although the logo file of another
\* preset exists.
C13_Witness ==
    \E j \in Jobs :
        /\ pc[j] = "encoding"
        /\ Selected(j).width = 1920 /\ Selected(j).height = 1080
        /\ req[j].watermark_position = "bottom-right" /\ req[j].logo_preset = "none"
        /\ logo_dir = {"lakeb2b"}
        /\ cmd[j].delogo = [x |-> 1680, y |-> 980, w |-> 220, h |-> 80]
        /\ Len(cmd[j].inputs) = 1

\* the job's preset names a logo whose file exists
LogoResolved(j) == req[j].logo_preset # "none" /\ req[j].logo_preset \in logo_dir

\* C14: the command built has an overlay stage iff the preset names a logo
\* whose file exists: then it has the delogo filter, the scaling of the logo
\* and the overlay, and the logo file as second input; for "none" and for a
\* preset whose file is missing it has the delogo filter alone and the input
\* file as only input, and ffmpeg is started all the same.
C14_OverlayIffLogo ==
    \A j \in Jobs : CommandBuilt(j) =>
        /\ cmd[j].overlay # NoOverlay <=> LogoResolved(j)
        /\ cmd[j].delogo.w > 0 /\ cmd[j].delogo.h > 0
        /\ "encode" \in Range(log[j])
        /\ LogoResolved(j) =>
              /\ cmd[j].inputs = <<input_path(j, req[j].ext), LogoFile(req[j].logo_preset)>>
              /\ cmd[j].scale = 120
              /\ cmd[j].overlay = [x |-> "W-w-20", y |-> "H-h-20"]
        /\ ~LogoResolved(j) =>
              /\ cmd[j].inputs = <<input_path(j, req[j].ext)>>
              /\ cmd[j].scale = 0

\* C14 witness: ffmpeg has exited with code 0 and left the output file for a
\* job whose preset names a logo whose file is missing: its command had the
\* delogo filter alone.
C14_Witness ==
    \E j \in Jobs :
        /\ pc[j] = "encoded" /\ enc[j].rc = 0 /\ output_path(j) \in fs
        /\ req[j].logo_preset = "lakeb2b" /\ logo_dir = {}
        /\ cmd[j].overlay = NoOverlay /\ Len(cmd[j].inputs) = 1

\* the look-ups made with function fn
LookupsOf(fns) == {i \in 1..Len(lookups) : lookups[i].fn \in fns}

\* C15: get_logo_path("none") returns no path; for another preset it returns
\* <logo_dir>/<preset>.png iff that file exists and no path otherwise; two
\* look-ups of one preset by one function return the same; and the
\* availability that logo_exists and the preset listing report is true
\* exactly for "none" and for the presets for which get_logo_path returns a
\* path.
C15_LogoResolution ==
    /\ \A i \in LookupsOf({"get_logo_path"}) :
          /\ lookups[i].preset = "none" => lookups[i].path = NoPath
          /\ lookups[i].preset # "none" =>
                /\ lookups[i].path = Path("logos", 0, lookups[i].preset)
                      <=> lookups[i].preset \in logo_dir
                /\ lookups[i].path = NoPath <=> lookups[i].preset \notin logo_dir
    /\ \A i \in 1..Len(lookups), k \in 1..Len(lookups) :
          (lookups[i].fn = lookups[k].fn /\ lookups[i].preset = lookups[k].preset)
              => lookups[i] = lookups[k]
    /\ \A i \in LookupsOf({"logo_exists", "get_presets"}) :
          /\ lookups[i].preset = "none" => lookups[i].available
          /\ lookups[i].available
                <=> (lookups[i].preset = "none" \/ lookups[i].preset \in logo_dir)
          /\ \A k \in LookupsOf({"get_logo_path"}) :
                lookups[k].preset = lookups[i].preset =>
                    (lookups[i].available
                        <=> (lookups[i].preset = "none" \/ lookups[k].path # NoPath))

\* C15 witness: with the logo of one preset present and that of another
\* missing, get_logo_path has returned the path of the first and none for
\* the second, and logo_exists has reported the second as unavailable.
C15_Witness ==
    /\ logo_dir = {"lakeb2b"}
    /\ Len(lookups) = 3
    /\ lookups[1] = Lookup("get_logo_path", "lakeb2b", Path("logos", 0, "lakeb2b"), FALSE)
    /\ lookups[2] = Lookup("get_logo_path", "champions", NoPath, FALSE)
    /\ lookups[3] = Lookup("logo_exists", "champions", NoPath, FALSE)

\* the jobs that are staging their upload, and those whose response is
\* being streamed
Staging == {j \in Jobs : pc[j] = "staging"}

Streaming == {j \in Jobs : pc[j] = "streaming"}

\* C17: a job holds no permit while it stages its upload nor while its
\* response is streamed; it asks for a permit only when staging is over, and
\* staging is over only when the whole upload has been read and written.
C17_UngatedStagingAndStreaming ==
    /\ [](\A j \in Jobs :
            /\ pc[j] \in {"staging", "streaming", "sent"} => Holding(j) = 0
            /\ pc[j] \in {"idle", "staging"} => "acquire" \notin Range(log[j])
            /\ pc[j] \in {"streaming", "sent"} => Count(log[j], "release") = 1)
    /\ [][\A j \in Jobs :
            /\ Count(log'[j], "acquire") > Count(log[j], "acquire") => pc[j] = "staged"
            /\ (pc[j] # "staged" /\ pc'[j] = "staged") =>
                  /\ pc[j] = "staging"
                  /\ body[j] = 0
                  /\ written[j] = req[j].size]_vars

\* C17 witness: more requests than there are permits are staging at the
\* same time, one of them with a part of its upload written, while N
\* transforms run and no permit is free.
C17_Witness ==
    /\ Cardinality(Staging) > MAX_CONCURRENT_JOBS
    /\ \E j \in Staging : written[j] > 0 /\ body[j] > 0
    /\ Running = MAX_CONCURRENT_JOBS
    /\ sem = 0

\* the stage of a job: New before its request, Admitted while it stages its
\* upload, Staged when the upload is staged, Probed from the start of ffprobe
\* to the start of ffmpeg, Processed from the start of ffmpeg to the return
\* of process(), Delivered from the success response on, Failed from an
\* error response on
Stage(j) ==
    CASE pc[j] = "idle"                     -> "New"
      [] pc[j] = "staging"                  -> "Admitted"
      [] pc[j] = "staged"                   -> "Staged"
      [] pc[j] \in {"probing", "probed"}    -> "Probed"
      [] pc[j] \in {"encoding", "encoded"}  -> "Processed"
      [] pc[j] \in {"streaming", "sent"}    -> "Delivered"
      [] OTHER -> IF resp[j].status = 200 THEN "Delivered" ELSE "Failed"

\* the stages that may follow a stage in one step
StageSuccessors(stage) ==
    CASE stage = "New"       -> {"New", "Admitted", "Failed"}
      [] stage = "Admitted"  -> {"Admitted", "Staged", "Failed"}
      [] stage = "Staged"    -> {"Staged", "Probed", "Failed"}
      [] stage = "Probed"    -> {"Probed", "Processed", "Failed"}
      [] stage = "Processed" -> {"Processed", "Delivered", "Failed"}
      [] stage = "Delivered" -> {"Delivered"}
      [] stage = "Failed"    -> {"Failed"}

\* the frame size process() takes from the selected stream
FrameWidth(j) == IF Selected(j).width = NoDim THEN 1280 ELSE Selected(j).width

FrameHeight(j) == IF Selected(j).height = NoDim THEN 720 ELSE Selected(j).height

\* a step of the job that ends it with an error response is possible
CanFailBy(A, j) == ENABLED (A /\ pc'[j] = "done" /\ resp'[j].status >= 400)

\* C18: a job goes through its stages in the order Admitted, Staged,
\* Probed, Processed, then Delivered or Failed: ffprobe is started only when
\* the upload is staged, ffmpeg only after a usable probe and with the region
\* calculated from it, the success response is given only after ffmpeg
\* exited with 0 and left the output, a job in Delivered or Failed stays
\* there with its response, and in every stage before these a step to
\* Failed is possible.
C18_StageOrder ==
    /\ [][\A j \in Jobs :
            /\ Stage(j)' \in StageSuccessors(Stage(j))
            /\ Count(log'[j], "probe") > Count(log[j], "probe") => pc[j] = "staged"
            /\ Count(log'[j], "encode") > Count(log[j], "encode") =>
                  /\ pc[j] = "probed"
                  /\ ~ProbeUnusable(probe[j])
                  /\ cmd'[j].delogo = _calculate_watermark_region(
                                          FrameWidth(j), FrameHeight(j),
                                          req[j].watermark_position)
            /\ (Stage(j) # "Delivered" /\ Stage(j)' = "Delivered") =>
                  /\ pc[j] = "encoded"
                  /\ enc[j].rc = 0
                  /\ output_path(j) \in fs
            /\ Stage(j) \in {"Delivered", "Failed"} => resp'[j] = resp[j]]_vars
    /\ [](\A j \in Jobs :
            /\ (pc[j] = "idle" /\ ENABLED Submit(j)) => CanFailBy(Submit(j), j)
            /\ (pc[j] = "staging" /\ body[j] > 0 /\ LoopFree) => CanFailBy(StageChunk(j), j)
            /\ (pc[j] = "staged" /\ sem > 0 /\ LoopFree) => CanFailBy(Acquire(j), j)
            /\ (pc[j] = "probed" /\ LoopFree) => CanFailBy(AfterProbe(j), j)
            /\ pc[j] = "encoding" => ENABLED (EncodeExit(j) /\ enc'[j].rc # 0)
            /\ (pc[j] = "encoded" /\ enc[j].rc # 0 /\ LoopFree)
                  => CanFailBy(AfterEncode(j), j))

\* C18 witness: a job has been delivered after going through every stage
\* in order.
C18_Witness ==
    \E j \in Jobs :
        /\ Stage(j) = "Delivered" /\ pc[j] = "done"
        /\ log[j] = <<"open", "acquire", "probe", "encode", "output", "release",
                      "respond", "sent", "unlink_in", "unlink_out">>

\* C19: under SpecLive's scheduling every accepted request ends Delivered or
\* Failed and every request that waits for a permit gets one; a request
\* that waits while a permit is free can take it as soon as the event loop
\* runs, and whenever the event loop is held by a background removal that
\* removal can end.
C19_Liveness ==
    /\ \A j \in Jobs : (pc[j] # "idle") ~> (Stage(j) \in {"Delivered", "Failed"})
    /\ \A j \in Jobs : (pc[j] = "staged") ~> (Count(log[j], "acquire") = 1)
    /\ [](\A j \in Jobs : (pc[j] = "staged" /\ sem > 0 /\ LoopFree) => ENABLED Acquire(j))
    /\ [](~LoopFree => \E i \in Images : ENABLED ImageRemoved(i))

\* C19 witness: the second request waits for a permit, its upload staged,
\* while the ffmpeg of the first runs and no permit is free.
C19_Witness ==
    /\ pc[1] = "encoding" /\ pc[2] = "staged"
    /\ sem = 0
    /\ Holding(1) = 1 /\ Holding(2) = 0

\* str(e) of the exceptions raised inside process()
ProcessExceptions ==
    {"[Errno 2] No such file or directory: 'ffprobe'",
     "[Errno 2] No such file or directory: 'ffmpeg'",
     "'list' object has no attribute 'get'"}

\* what the job's ffprobe or ffmpeg did makes process() fail
ProcessFails(j) ==
    \/ pc[j] = "probed" /\ (ProbeUnusable(probe[j]) \/ probe[j].out.kind = "list")
    \/ pc[j] = "encoded" /\ ~(enc[j].rc = 0 /\ output_path(j) \in fs)

\* C20: a job starts ffprobe at most once and ffmpeg at most once; an error
\* response ends the job and leaves it without a permit; a success response
\* is given only to a job whose ffmpeg ran and left an output; an exception
\* raised inside process() comes out as a processing failure with the text
\* of the exception, the permit released, and only an exception raised
\* before process() is reported as unexpected; the step that follows a
\* failed probe or a failed encode, and every step that ends a job that has
\* not been delivered, gives an error response.
C20_FailuresSurfaced ==
    /\ [](\A j \in Jobs :
            /\ Count(log[j], "probe") <= 1
            /\ Count(log[j], "encode") <= 1
            /\ resp[j].status >= 400 => (pc[j] = "done" /\ Holding(j) = 0)
            /\ resp[j].status = 200 =>
                  /\ Count(log[j], "encode") = 1
                  /\ "output" \in Range(log[j])
                  /\ Holding(j) = 0
            /\ resp[j].error.text \in ProcessExceptions =>
                  /\ resp[j].status = 500
                  /\ resp[j].prefix = "Processing failed: "
                  /\ Count(log[j], "release") = 1
            /\ resp[j].prefix = "Unexpected error: " =>
                  /\ resp[j].status = 500
                  /\ "acquire" \notin Range(log[j]))
    /\ [][\A j \in Jobs :
            /\ (ProcessFails(j) /\ pc'[j] # pc[j]) =>
                  /\ pc'[j] = "done"
                  /\ resp'[j].status = 500
                  /\ resp'[j].prefix = "Processing failed: "
                  /\ sem' = sem + 1
            /\ (pc[j] \in {"idle", "staging", "staged", "probed", "encoded"}
                    /\ pc'[j] = "done") => resp'[j].status >= 400]_vars

\* C20 witness: ffmpeg could not be started; the exception came out of
\* process() as a failure, and the job ended with 500 "Processing failed",
\* its permit released, having started ffprobe once and ffmpeg never.
C20_Witness ==
    \E j \in Jobs :
        /\ pc[j] = "done" /\ resp[j].status = 500
        /\ resp[j].prefix = "Processing failed: "
        /\ resp[j].error.text = "[Errno 2] No such file or directory: 'ffmpeg'"
        /\ log[j] = <<"open", "acquire", "probe", "release", "unlink_in", "respond">>
        /\ sem = MAX_CONCURRENT_JOBS

\* C21: a temporary file a job has created (the input file it opened, the
\* output file its ffmpeg left) exists until the job itself unlinks it,
\* whatever other requests and calls of DELETE /api/cleanup do meanwhile,
\* and two jobs never have a temporary path in common.
C21_ExclusiveOwnership ==
    /\ \A j \in Jobs :
          /\ ("open" \in Range(log[j]) /\ Count(log[j], "unlink_in") = 0)
                => input_path(j, req[j].ext) \in fs
          /\ ("output" \in Range(log[j]) /\ Count(log[j], "unlink_out") = 0)
                => output_path(j) \in fs
    /\ \A j \in Jobs, k \in Jobs :
          (j # k /\ pc[j] # "idle" /\ pc[k] # "idle") => JobFiles(j) \cap JobFiles(k) = {}

\* C22: the bytes written to a job's temporary input file never exceed
\* MAX_FILE_SIZE and never exceed the running counter; the step in which
\* the counter passes the maximum writes nothing and rejects the upload
\* with 413; an upload is staged only in full and only if it has at most
\* MAX_FILE_SIZE bytes, and one of at most MAX_FILE_SIZE bytes is never
\* rejected as too large.
C22_WrittenWithinLimit ==
    /\ [](\A j \in Jobs :
            /\ written[j] <= MAX_FILE_SIZE
            /\ pc[j] = "staging" =>
                  /\ written[j] = file_size[j]
                  /\ written[j] + body[j] = req[j].size
            /\ pc[j] \in {"staged", "probing", "probed", "encoding", "encoded",
                           "streaming", "sent"} => req[j].size <= MAX_FILE_SIZE
            /\ req[j].size <= MAX_FILE_SIZE => resp[j].status # 413
            /\ (req[j].size > MAX_FILE_SIZE /\ pc[j] = "done" /\ "open" \in Range(log[j]))
                  => (resp[j].status = 413 \/ resp[j].prefix = "Unexpected error: "))
    /\ [][\A j \in Jobs :
            /\ (pc[j] = "staging" /\ file_size'[j] > MAX_FILE_SIZE) =>
                  /\ written'[j] <= written[j]
                  /\ pc'[j] = "done"
                  /\ resp'[j].status = 413
                  /\ input_path(j, req[j].ext) \notin fs'
            /\ (pc[j] = "staging" /\ pc'[j] = "staged") =>
                  /\ written[j] = req[j].size
                  /\ req[j].size <= MAX_FILE_SIZE]_vars

\* C22 witness: an upload of exactly MAX_FILE_SIZE bytes has been read and
\* written in full, in more than one chunk, and is not rejected.
C22_Witness ==
    \E j \in Jobs :
        /\ pc[j] = "staging" /\ body[j] = 0
        /\ req[j].size = MAX_FILE_SIZE /\ written[j] = MAX_FILE_SIZE
        /\ ChunkSize < MAX_FILE_SIZE
        /\ resp[j].status = 0

====
